---- MODULE Spec2Model ----
(***************************************************************************)
(* Model of static/code/removing-eog-regression.py: removal of EOG         *)
(* artifacts from EEG by linear regression.                                *)
(*                                                                         *)
(* The script is a straight-line program.  Each statement that changes the *)
(* program state is one action, named after its source line (L10 .. L30).  *)
(* The state of one run is kept per run identifier, so that two runs of    *)
(* the script can be compared (specification SpecPair).                    *)
(*                                                                         *)
(* Numbers.  NumPy computes in float64.  The model computes in exact       *)
(* rational arithmetic: a number is a pair <<n, d>> in lowest terms with   *)
(* d > 0.  Rounding error is therefore outside the model; every statement  *)
(* checked here is a statement about the exact arithmetic the script       *)
(* approximates.  Values are held in units of 1e-6 (the factor of lines    *)
(* 10 and 11), so that X * 1e-6 with an integral X is the rational X/1 in  *)
(* those units.                                                            *)
(*                                                                         *)
(* Arrays.  A matrix is a sequence of rows, each row a sequence of         *)
(* numbers; <<>> stands for a name that is not bound yet.  The objects     *)
(* raw1, raw2, raw3 are references (indices) into a per-run heap of data   *)
(* buffers, so that aliasing between raw2 and raw3 can be expressed.       *)
(***************************************************************************)
EXTENDS Integers, Sequences, FiniteSets

\* ------------------------------------------------------------------------
\* Bounds of the model (not program constants).

\* Largest number of samples of a recording.
MaxSamples == 3
\* Recordings are windows of a fixed sample stream that start at 0..MaxPhase.
MaxPhase == 6
\* EEG amplitude factors range over 0..MaxAmp.
MaxAmp == 1
\* Channel counts of a recording file range over NCH-MaxChDelta..NCH+MaxChDelta.
MaxChDelta == 1
\* The pair specification draws its recordings from phases 0..MaxPairPhase.
MaxPairPhase == 0

\* ------------------------------------------------------------------------
\* Program constants.

\* Number of EEG channels: ["eeg"] * 22, and the slices [:22] and [22:].
NEEG == 22
\* Number of raw EOG channels: ["eog"] * 3.
NEOG == 3
\* Number of channels handed to mne.create_info.
NCH == 25

\* ------------------------------------------------------------------------
\* Exact arithmetic standing for float64 arithmetic.

Abs(i) == IF i < 0 THEN -i ELSE i

RECURSIVE GCD(_, _)
GCD(a, b) == IF b = 0 THEN a ELSE GCD(b, a % b)

\* The rational n/d (d # 0) in lowest terms with a positive denominator.
Rat(n, d) ==
    LET g == GCD(Abs(n), Abs(d))
        s == IF d < 0 THEN -1 ELSE 1
    IN  << (s * n) \div g, (s * d) \div g >>

Zero == << 0, 1 >>
FromInt(i) == << i, 1 >>
RAdd(x, y) == Rat(x[1] * y[2] + y[1] * x[2], x[2] * y[2])
RSub(x, y) == Rat(x[1] * y[2] - y[1] * x[2], x[2] * y[2])
RMul(x, y) == Rat(x[1] * y[1], x[2] * y[2])
RDiv(x, y) == Rat(x[1] * y[2], x[2] * y[1])
RAbs(x) == << Abs(x[1]), x[2] >>
RLess(x, y) == x[1] * y[2] < y[1] * x[2]

\* ------------------------------------------------------------------------
\* Arrays.

Rows(M) == Len(M)
Cols(M) == IF Len(M) = 0 THEN 0 ELSE Len(M[1])
Shape(M) == << Rows(M), Cols(M) >>

\* ndarray.T
Transpose(M) == [j \in 1..Cols(M) |-> [i \in 1..Rows(M) |-> M[i][j]]]

RECURSIVE Dot(_, _, _, _, _)
\* sum over l in 1..k of A[i][l] * B[l][j]
Dot(A, B, i, j, k) ==
    IF k = 0 THEN Zero
    ELSE RAdd(Dot(A, B, i, j, k - 1), RMul(A[i][k], B[k][j]))

\* The operator @ raises ValueError unless the inner dimensions agree.
MatMulOK(A, B) == Cols(A) = Rows(B)
MatMul(A, B) ==
    [i \in 1..Rows(A) |-> [j \in 1..Cols(B) |-> Dot(A, B, i, j, Cols(A))]]

\* Elementwise difference of two arrays; numpy raises ValueError unless the
\* shapes agree (no broadcasting applies to the shapes of this script).
MatSub(A, B) ==
    [i \in 1..Rows(A) |-> [j \in 1..Cols(A) |-> RSub(A[i][j], B[i][j])]]

\* ------------------------------------------------------------------------
\* numpy.linalg.solve(a, b): LU factorisation with partial pivoting of the
\* augmented matrix [a | b], then back substitution.  A zero pivot means a
\* is singular, and solve raises LinAlgError.

Augment(A, B) == [i \in 1..Rows(A) |-> A[i] \o B[i]]

\* The first row at or below j whose entry in column j is largest in size.
PivotRow(M, j) ==
    CHOOSE p \in j..Len(M) :
        /\ \A q \in j..Len(M) : ~RLess(RAbs(M[p][j]), RAbs(M[q][j]))
        /\ \A q \in j..(p - 1) : RLess(RAbs(M[q][j]), RAbs(M[p][j]))

SwapRows(M, i, p) ==
    [q \in 1..Len(M) |-> IF q = i THEN M[p] ELSE IF q = p THEN M[i] ELSE M[q]]

\* Faulty elimination step: the multiple of the pivot row is added.
RowPlus(M, i, j, f) ==
    [l \in 1..Len(M[i]) |-> RAdd(M[i][l], RMul(f, M[j][l]))]

\* Row i of M minus f times row j of M.
RowMinus(M, i, j, f) ==
    [l \in 1..Len(M[i]) |-> RSub(M[i][l], RMul(f, M[j][l]))]

RECURSIVE Eliminate(_, _)
\* Forward elimination from column j on; <<>> when a pivot is zero.
Eliminate(M, j) ==
    IF j > Len(M) THEN M
    ELSE LET p == PivotRow(M, j)
         IN  IF M[p][j] = Zero THEN << >>
             ELSE LET S == SwapRows(M, j, p)
                      E == [i \in 1..Len(S) |->
                              IF i <= j THEN S[i]
                              ELSE RowMinus(S, i, j, RDiv(S[i][j], S[j][j]))]
                  IN  Eliminate(E, j + 1)

RECURSIVE BackSum(_, _, _, _, _)
\* sum over l in (i+1)..k of U[i][l] * X[l][c]
BackSum(U, X, i, c, k) ==
    IF k <= i THEN Zero
    ELSE RAdd(BackSum(U, X, i, c, k - 1), RMul(U[i][k], X[k][c]))

RECURSIVE BackSubst(_, _, _)
\* Rows i..k of the solution of the triangular system U, given rows i+1..k.
BackSubst(U, i, X) ==
    IF i = 0 THEN X
    ELSE LET k == Len(U)
             m == Len(U[1]) - k
             row == [c \in 1..m |->
                       RDiv(RSub(U[i][k + c], BackSum(U, X, i, c, k)), U[i][i])]
         IN  BackSubst(U, i - 1, [l \in 1..k |-> IF l = i THEN row ELSE X[l]])

\* Faulty solve: no singularity test, the zero matrix is returned.
solve_no_check(A, B) ==
    [ok |-> TRUE, x |-> [i \in 1..Rows(A) |-> [j \in 1..Cols(B) |-> Zero]]]

solve(A, B) ==
    LET U == Eliminate(Augment(A, B), 1)
    IN  IF U = << >> THEN [ok |-> FALSE, x |-> << >>]
        ELSE [ok |-> TRUE,
              x |-> BackSubst(U, Len(U), [l \in 1..Len(U) |-> << >>])]

\* ------------------------------------------------------------------------
\* The recordings a run may find in A01T.mat.  A recording is an array of
\* shape (samples, channels) of integers (microvolts): the n samples of
\* a fixed stream that start at sample p.  Sample k of the
\* stream has the three raw EOG readings EogAt(k) and the EEG readings
\* EegAt(c, k, a): a channel-dependent share of the two bipolar EOG
\* derivations plus a times an EOG-independent component.

EogAt(k) == << k % 2, (k \div 2) % 2, (k \div 4) % 2 >>

EegAt(c, k, a) ==
    ((c % 3) - 1) * (EogAt(k)[1] - EogAt(k)[2])
    + (c % 2) * (EogAt(k)[3] - EogAt(k)[2])
    + a * (((c + k) % 3) - 1)

Recording(p, n, a, ch) ==
    [t \in 1..n |->
        [c \in 1..ch |->
            IF c <= NEEG THEN EegAt(c, p + t - 1, a)
            ELSE IF c - NEEG <= NEOG THEN EogAt(p + t - 1)[c - NEEG]
            ELSE 0]]

Recordings ==
    { Recording(p, n, a, NCH) :
        p \in 0..MaxPhase, n \in 1..MaxSamples, a \in 0..MaxAmp }
    \cup { Recording(0, 1, 0, ch) : ch \in (NCH - MaxChDelta)..(NCH + MaxChDelta) }

PairRecordings ==
    { Recording(p, n, a, NCH) :
        p \in 0..MaxPairPhase, n \in {1, MaxSamples}, a \in {0, MaxAmp} }

\* ------------------------------------------------------------------------
\* The expressions of the script.

\* mat["data"][i]["X"] * 1e-6, in units of 1e-6.
Scale(X) == [t \in 1..Rows(X) |-> [c \in 1..Cols(X) |-> FromInt(X[t][c])]]

\* ch_types=["eeg"] * 22 + ["eog"] * 3
ch_types == [c \in 1..(NEEG + NEOG) |-> IF c <= NEEG THEN "eeg" ELSE "eog"]

\* mne.create_info(25, 250, ch_types=...): one name per channel.
info == [nchan |-> NCH, ch_names |-> [c \in 1..NCH |-> c], ch_types |-> ch_types]

\* Faulty constructor: the channel count is not compared with info.
RawArrayAcceptsAll(data) == TRUE

\* RawArray(data, info) raises ValueError unless len(data) == len(info["ch_names"]).
RawArrayOK(data) == Len(data) = Len(info.ch_names)

\* np.array([[1, -1, 0], [0, -1, 1]])
bip ==
    << << FromInt(1), FromInt(-1), FromInt(0) >>,
       << FromInt(0), FromInt(-1), FromInt(1) >> >>

Min(i, j) == IF i < j THEN i ELSE j

\* D[lo:hi, :] with Python's 0-based, half-open, clipped row slice.
Slice(D, lo, hi) ==
    [i \in 1..(Min(hi, Len(D)) - Min(lo, Len(D))) |-> D[lo + i]]

\* raw[22:, :][0]
EogRows(D) == Slice(D, NEEG, Len(D))
\* raw[:22, :][0]
EegRows(D) == Slice(D, 0, NEEG)

\* Faulty line 23: G @ C instead of solve(G, C).
expr_b_matmul(eog, eeg) ==
    [ok |-> TRUE,
     x |-> MatMul(MatMul(eog, Transpose(eog)), MatMul(eog, Transpose(eeg)))]

\* np.linalg.solve(raw1_eog @ raw1_eog.T, raw1_eog @ raw1_eeg.T)
expr_b(eog, eeg) ==
    solve(MatMul(eog, Transpose(eog)), MatMul(eog, Transpose(eeg)))

MatAdd(A, B) ==
    [i \in 1..Rows(A) |-> [j \in 1..Cols(A) |-> RAdd(A[i][j], B[i][j])]]

\* Faulty line 25: the predicted contamination is added.
expr_eeg_corrected_plus(eeg, eog, coef) ==
    Transpose(MatAdd(Transpose(eeg), MatMul(Transpose(eog), coef)))

\* (raw2_eeg.T - raw2_eog.T @ b).T
expr_eeg_corrected(eeg, eog, coef) ==
    Transpose(MatSub(Transpose(eeg), MatMul(Transpose(eog), coef)))

\* Faulty line 26: raw3 = raw2, the same object.
copy_alias(h, ref) == [heap |-> h, ref |-> ref]

\* raw2.copy(): a new object with its own data buffer.
copy(h, ref) == [heap |-> Append(h, h[ref]), ref |-> Len(h) + 1]

\* Faulty line 27: raw3._data = eeg_corrected, the whole array replaced.
setitem_whole(h, ref, value) == [h EXCEPT ![ref] = value]

\* raw3._data[:22, :] = eeg_corrected
setitem(h, ref, value) ==
    [h EXCEPT ![ref] =
        [i \in 1..Len(@) |-> IF i <= Min(NEEG, Len(@)) THEN value[i] ELSE @[i]]]

\* ------------------------------------------------------------------------
\* State.

VARIABLES
    runs,           \* the runs of the script
    mat,            \* per run: the two recordings of the file, runs 3 and 4
    pc,             \* per run: the next line, or "done" or "error"
    err,            \* per run: << exception, line >> of the uncaught exception
    eeg1, eeg2,     \* per run: arrays of shape (samples, channels)
    heap,           \* per run: the data buffers of the Raw objects
    raw1, raw2, raw3,   \* per run: index of the object's buffer, 0 if unbound
    raw1_eog, raw2_eog, raw1_eeg, raw2_eeg,
    b, eeg_corrected,
    plots           \* per run: the plots shown, << title, object >>

vars ==
    << runs, mat, pc, err, eeg1, eeg2, heap, raw1, raw2, raw3,
       raw1_eog, raw2_eog, raw1_eeg, raw2_eeg, b, eeg_corrected, plots >>

NoError == << "none", 0 >>

InitRun(R) ==
    /\ runs = R
    /\ pc = [r \in R |-> "L10"]
    /\ err = [r \in R |-> NoError]
    /\ eeg1 = [r \in R |-> << >>]
    /\ eeg2 = [r \in R |-> << >>]
    /\ heap = [r \in R |-> << >>]
    /\ raw1 = [r \in R |-> 0]
    /\ raw2 = [r \in R |-> 0]
    /\ raw3 = [r \in R |-> 0]
    /\ raw1_eog = [r \in R |-> << >>]
    /\ raw2_eog = [r \in R |-> << >>]
    /\ raw1_eeg = [r \in R |-> << >>]
    /\ raw2_eeg = [r \in R |-> << >>]
    /\ b = [r \in R |-> << >>]
    /\ eeg_corrected = [r \in R |-> << >>]
    /\ plots = [r \in R |-> << >>]

\* One run; the file holds any two recordings.
Init ==
    /\ InitRun({1})
    /\ mat \in [{1} -> [cal : Recordings, exp : Recordings]]

\* Two runs, one after the other.
InitPair ==
    /\ InitRun({1, 2})
    /\ mat \in [{1, 2} -> [cal : PairRecordings, exp : PairRecordings]]

Terminated(r) == pc[r] \in {"done", "error"}

\* Run r is at line l, and the runs before it have ended.
At(r, l) ==
    /\ pc[r] = l
    /\ \A q \in runs : q < r => Terminated(q)

\* The line executed after line l.
NextLine(l) ==
    CASE l = "L10" -> "L11"
      [] l = "L11" -> "L14"
      [] l = "L14" -> "L15"
      [] l = "L15" -> "L18"
      [] l = "L18" -> "L19"
      [] l = "L19" -> "L20"
      [] l = "L20" -> "L21"
      [] l = "L21" -> "L23"
      [] l = "L23" -> "L25"
      [] l = "L25" -> "L26"
      [] l = "L26" -> "L27"
      [] l = "L27" -> "L29"
      [] l = "L29" -> "L30"
      [] l = "L30" -> "done"

\* Line l completes normally.
Goto(r, l) ==
    /\ pc' = [pc EXCEPT ![r] = NextLine(l)]
    /\ UNCHANGED err

\* Faulty exception handling: the exception is recorded and the script goes on.
RaiseAndContinue(r, kind, l) ==
    /\ pc' = [pc EXCEPT ![r] = NextLine(l)]
    /\ err' = [err EXCEPT ![r] = << kind, l >>]

\* An uncaught exception ends the run at the line that raised it.
Raise(r, kind, l) ==
    /\ pc' = [pc EXCEPT ![r] = "error"]
    /\ err' = [err EXCEPT ![r] = << kind, l >>]

\* ------------------------------------------------------------------------
\* The statements.

\* eeg1 = mat["data"][2]["X"] * 1e-6
L10(r) ==
    /\ At(r, "L10")
    /\ eeg1' = [eeg1 EXCEPT ![r] = Scale(mat[r].cal)]
    /\ Goto(r, "L10")
    /\ UNCHANGED << runs, mat, eeg2, heap, raw1, raw2, raw3, raw1_eog,
                    raw2_eog, raw1_eeg, raw2_eeg, b, eeg_corrected, plots >>

\* eeg2 = mat["data"][3]["X"] * 1e-6
L11(r) ==
    /\ At(r, "L11")
    /\ eeg2' = [eeg2 EXCEPT ![r] = Scale(mat[r].exp)]
    /\ Goto(r, "L11")
    /\ UNCHANGED << runs, mat, eeg1, heap, raw1, raw2, raw3, raw1_eog,
                    raw2_eog, raw1_eeg, raw2_eeg, b, eeg_corrected, plots >>

\* raw1 = mne.io.RawArray(eeg1.T, info)
L14(r) ==
    /\ At(r, "L14")
    /\ IF RawArrayOK(Transpose(eeg1[r]))
       THEN /\ heap' = [heap EXCEPT ![r] = Append(@, Transpose(eeg1[r]))]
            /\ raw1' = [raw1 EXCEPT ![r] = Len(heap[r]) + 1]
            /\ Goto(r, "L14")
       ELSE /\ Raise(r, "ValueError", "L14")
            /\ UNCHANGED << heap, raw1 >>
    /\ UNCHANGED << runs, mat, eeg1, eeg2, raw2, raw3, raw1_eog, raw2_eog,
                    raw1_eeg, raw2_eeg, b, eeg_corrected, plots >>

\* raw2 = mne.io.RawArray(eeg2.T, info)
L15(r) ==
    /\ At(r, "L15")
    /\ IF RawArrayOK(Transpose(eeg2[r]))
       THEN /\ heap' = [heap EXCEPT ![r] = Append(@, Transpose(eeg2[r]))]
            /\ raw2' = [raw2 EXCEPT ![r] = Len(heap[r]) + 1]
            /\ Goto(r, "L15")
       ELSE /\ Raise(r, "ValueError", "L15")
            /\ UNCHANGED << heap, raw2 >>
    /\ UNCHANGED << runs, mat, eeg1, eeg2, raw1, raw3, raw1_eog, raw2_eog,
                    raw1_eeg, raw2_eeg, b, eeg_corrected, plots >>

\* raw1_eog = bip @ raw1[22:, :][0]
L18(r) ==
    /\ At(r, "L18")
    /\ IF MatMulOK(bip, EogRows(heap[r][raw1[r]]))
       THEN /\ raw1_eog' =
                   [raw1_eog EXCEPT ![r] = MatMul(bip, EogRows(heap[r][raw1[r]]))]
            /\ Goto(r, "L18")
       ELSE /\ Raise(r, "ValueError", "L18")
            /\ UNCHANGED raw1_eog
    /\ UNCHANGED << runs, mat, eeg1, eeg2, heap, raw1, raw2, raw3, raw2_eog,
                    raw1_eeg, raw2_eeg, b, eeg_corrected, plots >>

\* raw2_eog = bip @ raw2[22:, :][0]
L19(r) ==
    /\ At(r, "L19")
    /\ IF MatMulOK(bip, EogRows(heap[r][raw2[r]]))
       THEN /\ raw2_eog' =
                   [raw2_eog EXCEPT ![r] = MatMul(bip, EogRows(heap[r][raw2[r]]))]
            /\ Goto(r, "L19")
       ELSE /\ Raise(r, "ValueError", "L19")
            /\ UNCHANGED raw2_eog
    /\ UNCHANGED << runs, mat, eeg1, eeg2, heap, raw1, raw2, raw3, raw1_eog,
                    raw1_eeg, raw2_eeg, b, eeg_corrected, plots >>

\* Faulty line 20: raw1_eeg = raw2[:22, :][0].
L20_raw2(r) ==
    /\ At(r, "L20")
    /\ raw1_eeg' = [raw1_eeg EXCEPT ![r] = EegRows(heap[r][raw2[r]])]
    /\ Goto(r, "L20")
    /\ UNCHANGED << runs, mat, eeg1, eeg2, heap, raw1, raw2, raw3, raw1_eog,
                    raw2_eog, raw2_eeg, b, eeg_corrected, plots >>

\* raw1_eeg = raw1[:22, :][0]
L20(r) ==
    /\ At(r, "L20")
    /\ raw1_eeg' = [raw1_eeg EXCEPT ![r] = EegRows(heap[r][raw1[r]])]
    /\ Goto(r, "L20")
    /\ UNCHANGED << runs, mat, eeg1, eeg2, heap, raw1, raw2, raw3, raw1_eog,
                    raw2_eog, raw2_eeg, b, eeg_corrected, plots >>

\* raw2_eeg = raw2[:22, :][0]
L21(r) ==
    /\ At(r, "L21")
    /\ raw2_eeg' = [raw2_eeg EXCEPT ![r] = EegRows(heap[r][raw2[r]])]
    /\ Goto(r, "L21")
    /\ UNCHANGED << runs, mat, eeg1, eeg2, heap, raw1, raw2, raw3, raw1_eog,
                    raw2_eog, raw1_eeg, b, eeg_corrected, plots >>

\* b = np.linalg.solve(raw1_eog @ raw1_eog.T, raw1_eog @ raw1_eeg.T)
L23(r) ==
    /\ At(r, "L23")
    /\ IF MatMulOK(raw1_eog[r], Transpose(raw1_eeg[r]))
       THEN LET s == expr_b(raw1_eog[r], raw1_eeg[r])
            IN  IF s.ok
                THEN /\ b' = [b EXCEPT ![r] = s.x]
                     /\ Goto(r, "L23")
                ELSE /\ Raise(r, "LinAlgError", "L23")
                     /\ UNCHANGED b
       ELSE /\ Raise(r, "ValueError", "L23")
            /\ UNCHANGED b
    /\ UNCHANGED << runs, mat, eeg1, eeg2, heap, raw1, raw2, raw3, raw1_eog,
                    raw2_eog, raw1_eeg, raw2_eeg, eeg_corrected, plots >>

\* eeg_corrected = (raw2_eeg.T - raw2_eog.T @ b).T
L25(r) ==
    /\ At(r, "L25")
    /\ IF /\ MatMulOK(Transpose(raw2_eog[r]), b[r])
          /\ Shape(Transpose(raw2_eeg[r])) = << Cols(raw2_eog[r]), Cols(b[r]) >>
       THEN /\ eeg_corrected' =
                   [eeg_corrected EXCEPT
                       ![r] = expr_eeg_corrected(raw2_eeg[r], raw2_eog[r], b[r])]
            /\ Goto(r, "L25")
       ELSE /\ Raise(r, "ValueError", "L25")
            /\ UNCHANGED eeg_corrected
    /\ UNCHANGED << runs, mat, eeg1, eeg2, heap, raw1, raw2, raw3, raw1_eog,
                    raw2_eog, raw1_eeg, raw2_eeg, b, plots >>

\* The values an uninitialised buffer may hold.
Garbage == { FromInt(0), FromInt(1) }

\* Faulty line 26: raw3 gets an uninitialised buffer of raw2's shape.
L26_empty_like(r) ==
    /\ At(r, "L26")
    /\ \E g \in Garbage :
          heap' = [heap EXCEPT ![r] =
                      Append(@, [i \in 1..Rows(@[raw2[r]]) |->
                                   [j \in 1..Cols(@[raw2[r]]) |-> g]])]
    /\ raw3' = [raw3 EXCEPT ![r] = Len(heap[r]) + 1]
    /\ Goto(r, "L26")
    /\ UNCHANGED << runs, mat, eeg1, eeg2, raw1, raw2, raw1_eog, raw2_eog,
                    raw1_eeg, raw2_eeg, b, eeg_corrected, plots >>

\* raw3 = raw2.copy()
L26(r) ==
    /\ At(r, "L26")
    /\ LET c == copy(heap[r], raw2[r])
       IN  /\ heap' = [heap EXCEPT ![r] = c.heap]
           /\ raw3' = [raw3 EXCEPT ![r] = c.ref]
    /\ Goto(r, "L26")
    /\ UNCHANGED << runs, mat, eeg1, eeg2, raw1, raw2, raw1_eog, raw2_eog,
                    raw1_eeg, raw2_eeg, b, eeg_corrected, plots >>

\* raw3._data[:22, :] = eeg_corrected
L27(r) ==
    /\ At(r, "L27")
    /\ IF Shape(EegRows(heap[r][raw3[r]])) = Shape(eeg_corrected[r])
       THEN /\ heap' = [heap EXCEPT ![r] = setitem(@, raw3[r], eeg_corrected[r])]
            /\ Goto(r, "L27")
       ELSE /\ Raise(r, "ValueError", "L27")
            /\ UNCHANGED heap
    /\ UNCHANGED << runs, mat, eeg1, eeg2, raw1, raw2, raw3, raw1_eog,
                    raw2_eog, raw1_eeg, raw2_eeg, b, eeg_corrected, plots >>

\* raw2.plot(..., title="Before")
L29(r) ==
    /\ At(r, "L29")
    /\ plots' = [plots EXCEPT ![r] = Append(@, << "Before", raw2[r] >>)]
    /\ Goto(r, "L29")
    /\ UNCHANGED << runs, mat, eeg1, eeg2, heap, raw1, raw2, raw3, raw1_eog,
                    raw2_eog, raw1_eeg, raw2_eeg, b, eeg_corrected >>

\* raw3.plot(..., title="After")
L30(r) ==
    /\ At(r, "L30")
    /\ plots' = [plots EXCEPT ![r] = Append(@, << "After", raw3[r] >>)]
    /\ Goto(r, "L30")
    /\ UNCHANGED << runs, mat, eeg1, eeg2, heap, raw1, raw2, raw3, raw1_eog,
                    raw2_eog, raw1_eeg, raw2_eeg, b, eeg_corrected >>

Next ==
    \/ \E r \in runs : L10(r)
    \/ \E r \in runs : L11(r)
    \/ \E r \in runs : L14(r)
    \/ \E r \in runs : L15(r)
    \/ \E r \in runs : L18(r)
    \/ \E r \in runs : L19(r)
    \/ \E r \in runs : L20(r)
    \/ \E r \in runs : L21(r)
    \/ \E r \in runs : L23(r)
    \/ \E r \in runs : L25(r)
    \/ \E r \in runs : L26(r)
    \/ \E r \in runs : L27(r)
    \/ \E r \in runs : L29(r)
    \/ \E r \in runs : L30(r)

Spec == Init /\ [][Next]_vars

SpecPair == InitPair /\ [][Next]_vars

\* ------------------------------------------------------------------------
\* What the claims speak about, computed from the file's recordings alone.

RECURSIVE ISum(_, _)
\* s[1] + ... + s[n], integers
ISum(s, n) == IF n = 0 THEN 0 ELSE ISum(s, n - 1) + s[n]

RECURSIVE RSum(_, _)
\* s[1] + ... + s[n], rationals
RSum(s, n) == IF n = 0 THEN Zero ELSE RAdd(RSum(s, n - 1), s[n])

\* Bipolar derivation k of sample t of recording X: EOG1 - EOG2, EOG3 - EOG2.
BipolarOf(X, k, t) ==
    IF k = 1 THEN X[t][NEEG + 1] - X[t][NEEG + 2]
    ELSE X[t][NEEG + 3] - X[t][NEEG + 2]

\* G[i][k] and C[i][c] of the calibration recording X.
GOf(X, i, k) ==
    ISum([t \in 1..Len(X) |-> BipolarOf(X, i, t) * BipolarOf(X, k, t)], Len(X))
COf(X, i, c) ==
    ISum([t \in 1..Len(X) |-> BipolarOf(X, i, t) * X[t][c]], Len(X))
DetGOf(X) == GOf(X, 1, 1) * GOf(X, 2, 2) - GOf(X, 1, 2) * GOf(X, 2, 1)

\* Both recordings have the 22 + 3 channels of info.
ValidShapes(r) == Len(mat[r].cal[1]) = NCH /\ Len(mat[r].exp[1]) = NCH

\* The data of object ref of run r holds recording X, channel by sample.
Holds(r, ref, X) ==
    /\ Len(heap[r][ref]) = Len(X[1])
    /\ \A c \in 1..Len(X[1]) :
          /\ Len(heap[r][ref][c]) = Len(X)
          /\ \A t \in 1..Len(X) : heap[r][ref][c][t] = << X[t][c], 1 >>

InputsIntact(r) ==
    /\ raw1[r] # 0 => Holds(r, raw1[r], mat[r].cal)
    /\ raw2[r] # 0 => Holds(r, raw2[r], mat[r].exp)

AfterWrite(r) == pc[r] \in {"L29", "L30", "done"}

\* The corrected signal differs from the target in some EEG value.
EegChanged(r) ==
    \E c \in 1..NEEG : \E t \in 1..Len(mat[r].exp) :
        heap[r][raw3[r]][c][t] # << mat[r].exp[t][c], 1 >>

\* ------------------------------------------------------------------------
\* C1: once raw3 has been written, it has the target's shape (as many
\* channels and as many samples as the target recording) and its EOG rows
\* 23..25 equal the target's EOG rows, value for value.
C1_ShapeAndEogKept ==
    \A r \in runs :
        (raw3[r] # 0 /\ pc[r] # "error") =>
            LET X == mat[r].exp
                D == heap[r][raw3[r]]
            IN  /\ Len(D) = Len(X[1])
                /\ \A c \in 1..Len(D) : Len(D[c]) = Len(X)
                /\ \A c \in (NEEG + 1)..(NEEG + NEOG) : \A t \in 1..Len(X) :
                      D[c][t] = << X[t][c], 1 >>

\* A finished run whose correction changed an EEG value.
C1_Witness == \E r \in runs : pc[r] = "done" /\ EegChanged(r)

\* C2: the calibration signal raw1 and the target signal raw2 hold the
\* values of their recordings at every step, also after raw3 was written.
C2_InputsNotMutated == \A r \in runs : InputsIntact(r)

\* A finished run in which the write to raw3 changed an EEG value while
\* raw2 is bound.
C2_Witness ==
    \E r \in runs : AfterWrite(r) /\ raw2[r] # 0 /\ raw3[r] # 0 /\ EegChanged(r)

NEegOf(X) == IF Len(X[1]) < NEEG THEN Len(X[1]) ELSE NEEG
NEogOf(X) == Len(X[1]) - NEegOf(X)

ShapeMismatch(r) ==
    \/ NEegOf(mat[r].cal) # NEegOf(mat[r].exp)
    \/ NEogOf(mat[r].cal) # NEogOf(mat[r].exp)
    \/ Len(bip[1]) # NEogOf(mat[r].cal)
    \/ Len(bip[1]) # NEogOf(mat[r].exp)

\* C4: when the channel counts of the two recordings differ by group, or
\* the number of raw EOG channels is not the number of columns of bip, the
\* run ends in the ValueError of line 14 or 15: it never reaches a later
\* line, so neither the solve nor the subtraction is executed.
C4_ShapeMismatchRaises ==
    \A r \in runs :
        ShapeMismatch(r) =>
            /\ pc[r] \in {"L10", "L11", "L14", "L15", "error"}
            /\ b[r] = << >>
            /\ eeg_corrected[r] = << >>
            /\ pc[r] = "error" =>
                  (err[r][1] = "ValueError" /\ err[r][2] \in {"L14", "L15"})

\* A run that ended in ValueError on recordings of different channel counts.
C4_Witness ==
    \E r \in runs :
        /\ pc[r] = "error"
        /\ err[r][1] = "ValueError"
        /\ Len(mat[r].cal[1]) # Len(mat[r].exp[1])

\* C5: a run in which an exception was raised has stopped at the raising
\* line (14 or 15 for ValueError, 23 for LinAlgError) with no partial result: raw3 and eeg_corrected are unbound, nothing
\* was plotted, no buffer beyond those of raw1 and raw2 exists, and raw1
\* and raw2 hold their recordings.
C5_NoPartialResultOnError ==
    \A r \in runs :
        (err[r] # NoError \/ pc[r] = "error") =>
            /\ pc[r] = "error"
            /\ err[r] \in { << "ValueError", "L14" >>, << "ValueError", "L15" >>,
                           << "LinAlgError", "L23" >> }
            /\ raw3[r] = 0
            /\ eeg_corrected[r] = << >>
            /\ plots[r] = << >>
            /\ Len(heap[r]) <= 2
            /\ InputsIntact(r)

\* A run that ended in LinAlgError after raw1 and raw2 were built.
C5_Witness ==
    \E r \in runs :
        pc[r] = "error" /\ err[r] = << "LinAlgError", "L23" >> /\ raw2[r] # 0

\* C6: once bound, b has shape 2 x 22 and satisfies G * b = C, entry by
\* entry, for the G and C of the calibration recording.
C6_NormalEquations ==
    \A r \in runs :
        b[r] # << >> =>
            /\ Len(b[r]) = Len(bip)
            /\ \A k \in 1..Len(bip) : Len(b[r][k]) = NEEG
            /\ \A i \in 1..Len(bip) : \A c \in 1..NEEG :
                  RSum([k \in 1..Len(bip) |->
                          RMul(<< GOf(mat[r].cal, i, k), 1 >>, b[r][k][c])],
                       Len(bip))
                  = << COf(mat[r].cal, i, c), 1 >>

\* A run whose b has an entry that is not an integer (det G is not 1).
C6_Witness ==
    \E r \in runs :
        /\ b[r] # << >>
        /\ \E k \in 1..Len(bip) : \E c \in 1..NEEG : b[r][k][c][2] # 1

\* The value the claim gives corrected EEG channel c at sample t.
ExpectedCorrected(r, c, t) ==
    RSub(<< mat[r].exp[t][c], 1 >>,
         RSum([k \in 1..Len(bip) |->
                 RMul(<< BipolarOf(mat[r].exp, k, t), 1 >>, b[r][k][c])],
              Len(bip)))

\* C7: every value of eeg_corrected, and after line 27 every EEG value of
\* raw3, is the target's value minus the sum over the bipolar derivations k
\* of (target bipolar EOG k at t) * b[k][c].
C7_CorrectedValues ==
    \A r \in runs :
        /\ eeg_corrected[r] # << >> =>
              \A c \in 1..NEEG : \A t \in 1..Len(mat[r].exp) :
                  eeg_corrected[r][c][t] = ExpectedCorrected(r, c, t)
        /\ AfterWrite(r) =>
              \A c \in 1..NEEG : \A t \in 1..Len(mat[r].exp) :
                  heap[r][raw3[r]][c][t] = ExpectedCorrected(r, c, t)

\* A finished run with a target other than the calibration recording, a
\* non-zero b and a changed EEG value.
C7_Witness ==
    \E r \in runs :
        /\ pc[r] = "done"
        /\ mat[r].cal # mat[r].exp
        /\ EegChanged(r)
        /\ \E k \in 1..Len(bip) : \E c \in 1..NEEG : b[r][k][c][2] # 1

\* What a run that has ended leaves behind.
Outcome(r) ==
    << pc[r], err[r], b[r], eeg_corrected[r],
       IF raw3[r] = 0 THEN << >> ELSE heap[r][raw3[r]], plots[r] >>

IsNoOp(eog, eeg, s2) ==
    /\ s2.ok
    /\ \A k \in 1..Len(bip) : \A c \in 1..NEEG : s2.x[k][c] = Zero
    /\ expr_eeg_corrected(eeg, eog, s2.x) = eeg

\* C9: when the target is the calibration recording itself, estimating
\* coefficients again from the corrected signal raw3 (lines 18 to 23 applied
\* to raw3) gives the zero matrix, and correcting raw3 with them (line 25)
\* leaves its EEG rows as they are.
C9_RecorrectionIsNoOp ==
    \A r \in runs :
        (pc[r] = "done" /\ mat[r].cal = mat[r].exp) =>
            \A eog \in {MatMul(bip, EogRows(heap[r][raw3[r]]))} :
                \A eeg \in {EegRows(heap[r][raw3[r]])} :
                    \A s2 \in {expr_b(eog, eeg)} : IsNoOp(eog, eeg, s2)

\* A finished run on target = calibration whose first correction was not
\* itself a no-op and left a non-zero EEG value.
C9_Witness ==
    \E r \in runs :
        /\ pc[r] = "done"
        /\ mat[r].cal = mat[r].exp
        /\ EegChanged(r)
        /\ \E c \in 1..NEEG : \E t \in 1..Len(mat[r].exp) :
              heap[r][raw3[r]][c][t] # Zero

SameCalibrationSameB ==
    \A r \in runs : \A q \in runs :
        (mat[r].cal = mat[q].cal /\ b[r] # << >> /\ b[q] # << >>) => b[r] = b[q]

BKept == \A r \in runs : b[r] # << >> => b'[r] = b[r]

\* While b is unbound, nothing has been computed from the target raw2.
TargetUnusedBeforeB ==
    \A r \in runs : b[r] = << >> => (raw2_eog[r] = << >> /\ raw2_eeg[r] = << >>)

\* C10 as stated: two runs with the same calibration recording bind the same
\* b, b is bound before any value of the target is used, and once bound b
\* is never changed.
C10_Original ==
    []SameCalibrationSameB /\ []TargetUnusedBeforeB /\ [][BKept]_vars

\* C10, amended: two runs with the same calibration recording and any
\* targets bind the same b, and once bound b is never changed (the
\* correction step leaves it alone).
C10_BFromCalibrationOnly == []SameCalibrationSameB /\ [][BKept]_vars

\* Two finished runs with the same calibration recording, different
\* targets and a non-zero b.
C10_Witness ==
    /\ Cardinality(runs) = 2
    /\ \A r \in runs : pc[r] = "done"
    /\ \E r \in runs : \E q \in runs :
          /\ mat[r].cal = mat[q].cal
          /\ mat[r].exp # mat[q].exp
          /\ \E k \in 1..Len(bip) : \E c \in 1..NEEG : b[r][k][c] # Zero

====
